---- MODULE Spec2Model ----
(***************************************************************************)
(* Tool-invocation server runtime of the MCP packages (bigquery, slack     *)
(* template, fetch): the call-tool dispatcher of each server, the          *)
(* cancellation bridge of BigQueryClient.executeQuery, and main() with its *)
(* environment check, its choice of transport, the SSE endpoints, the      *)
(* list-tools handler and the get-prompt handler of the fetch server.      *)
(*                                                                         *)
(* Scheduling follows the JavaScript event loop.  A handler runs without   *)
(* interruption up to its next await.  A promise is settled by an event    *)
(* from outside (a macrotask); the continuation that awaits it is a        *)
(* microtask and runs before any other macrotask, so no abort, no new      *)
(* request and no other settlement can come between a settlement and the   *)
(* continuation it wakes (MicrotasksIdle).                                 *)
(***************************************************************************)
EXTENDS Naturals, Sequences, FiniteSets, TLC

(* ------------------------------------------------------------------ *)
(* Bounds                                                             *)
(* ------------------------------------------------------------------ *)

\* Number of call-tool requests that one process lifetime receives.
NumReq == 2

Req == 1 .. NumReq

\* Number of GET /sse connections that one process lifetime receives.
MaxSessions == 2

\* Number of list-tools requests (POSTed to /messages, or read from stdin)
\* that one process lifetime receives.
MaxMsgs == 2

\* Number of call-tool requests that are followed from the start of the
\* process on (ServerSpec).
NumServed == 1

Served == 1 .. NumServed

(* ------------------------------------------------------------------ *)
(* Tool descriptors                                                   *)
(* ------------------------------------------------------------------ *)

Servers == {"bigquery", "slack", "fetch"}

\* Variant: the handler returns the first descriptor only.
ListToolsFirstOnly(srv) ==
  CASE srv = "bigquery" -> << "bigquery_execute_query" >>
    [] srv = "slack"    -> << "slack_get_user_profile" >>
    [] srv = "fetch"    -> << "fetch" >>

\* tools: [...] of the ListToolsRequest handler, in the order it returns them.
ListTools(srv) ==
  CASE srv = "bigquery" -> << "bigquery_execute_query", "bigquery_dry_run_query",
                              "bigquery_get_job", "bigquery_cancel_job" >>
    [] srv = "slack"    -> << "slack_get_user_profile" >>
    [] srv = "fetch"    -> << "fetch" >>

\* A tool name no server registers.
UnknownName == "no_such_tool"

\* inputSchema.required of each tool descriptor (one field each).
SchemaRequired(name) ==
  CASE name = "bigquery_execute_query" -> "query"
    [] name = "bigquery_dry_run_query" -> "query"
    [] name = "bigquery_get_job"       -> "jobId"
    [] name = "bigquery_cancel_job"    -> "jobId"
    [] name = "slack_get_user_profile" -> "user_id"
    [] name = "fetch"                  -> "url"

(* ------------------------------------------------------------------ *)
(* Values: arguments, errors, JSON text                               *)
(* ------------------------------------------------------------------ *)

\* String values a caller supplies for a field.
Values == {"", "v"}

\* request.params.arguments: absent (present = FALSE) or an object, here a set
\* of <<field, value>> pairs with at most one field.
NoArguments == [present |-> FALSE, obj |-> {}]

ArgObject(o) == [present |-> TRUE, obj |-> o]

\* The argument values tried with tool name n: none, an empty object, and an
\* object with the field that the tool's schema requires ("query" for a
\* name that is not registered).
ArgsFor(n, field) ==
  {NoArguments, ArgObject({})} \cup {ArgObject({<<field, v>>}) : v \in Values}

NamesFor(srv) ==
  {ListTools(srv)[i] : i \in 1 .. Len(ListTools(srv))} \cup {UnknownName}

\* args.<f>: the value of property f, or undefined.
Undefined == [defined |-> FALSE, str |-> ""]

Get(args, f) ==
  IF \E p \in args.obj : p[1] = f
  THEN [defined |-> TRUE, str |-> (CHOOSE p \in args.obj : p[1] = f)[2]]
  ELSE Undefined

\* !x of JavaScript on undefined and on strings: only "" and undefined are falsy.
Not(x) == ~x.defined \/ x.str = ""

\* A thrown or rejected value: an Error (name, message) or a plain string.
NoError == [isError |-> FALSE, name |-> "", message |-> ""]

Error(msg) == [isError |-> TRUE, name |-> "Error", message |-> msg]

UpstreamError == Error("upstream failure")

AbortError == [isError |-> TRUE, name |-> "AbortError",
               message |-> "The operation was aborted"]

ThrownString == [isError |-> FALSE, name |-> "", message |-> "rejected"]

Rejections == {UpstreamError, AbortError, ThrownString}

\* String(error): Error.prototype.toString for an Error, the string itself otherwise.
String(e) == IF e.isError THEN e.name \o ": " \o e.message ELSE e.message

\* error instanceof Error ? error.message : String(error)
ErrorMessage(e) == IF e.isError THEN e.message ELSE String(e)

\* JSON.stringify of a string without characters that need escaping.
JsonString(s) == "\"" \o s \o "\""

\* JSON.stringify({ error: msg })
JsonError(msg) == "{\"error\":" \o JsonString(msg) \o "}"

\* job.id of the job that createQueryJob returned to request r.
JobId(r) == "job" \o ToString(r)

\* Sample payloads of successful upstream calls, already as JSON text.
RowsJson == "[{\"n\":1}]"

(* ------------------------------------------------------------------ *)
(* State                                                              *)
(* ------------------------------------------------------------------ *)

VARIABLES
  server,       \* the server program this process runs
  request,      \* request[r]: the call-tool request r (name, arguments)
  pc,           \* pc[r]: "idle", the upstream call r awaits, or "done"
  awaited,      \* awaited[r]: the promise that handler r awaits
  aborted,      \* aborted[r]: extra.signal.aborted of request r
  listeners,    \* listeners[s]: jobs whose onAbort is attached to signal s
  cancelCalls,  \* cancelCalls[j]: job.cancel() calls made by executeQuery on job j
  cancelBy,     \* cancelBy[j]: signals whose abort led to a cancel of job j
  bgCancel,     \* bgCancel[j]: the promise of the job.cancel() made in onAbort
  response,     \* response[r]: content sequence returned for r (<< >> if none)
  clientCalls,  \* clientCalls[r]: calls of a client method made for r
  createCalls,  \* createCalls[r]: createQueryJob calls made by executeQuery for r
  jobCreated,   \* jobCreated[r]: createQueryJob resolved with a job for r
  addCalls,     \* addCalls[r]: signal.addEventListener calls of r
  removeCalls,  \* removeCalls[r]: signal.removeEventListener calls of r
  abortedAt,    \* abortedAt[r]: where handler r stood when its signal fired
  clientThrew,  \* clientThrew[r]: the client method rejected into the handler
  handlerThrew, \* handlerThrew[r]: the handler rejected to the transport
  env,          \* process.env: the value of each variable that main reads
  argv,         \* process.argv: the flags given
  mainPc,       \* where main() stands: "start", "listen", "connect", "done", "exited"
  exit,         \* whether process.exit was called, and its status
  handlers,     \* the request schemas given to server.setRequestHandler
  httpPorts,    \* the ports that app.listen bound
  stdio,        \* the StdioServerTransport: "none", "connecting", "connected", "failed"
  out,          \* the log lines written to stdout and to stderr
  transport,    \* `transport` of the --sse branch: 0 for null, or a session
  sessions,     \* sessions[k]: the k-th GET /sse (its stream, the POSTs handed to it)
  posts,        \* posts[p]: what the p-th POST /messages met and did
  lists,        \* lists[i]: the i-th list-tools response
  prompt        \* the get-prompt request of the fetch server and its handler

vars == << server, request, pc, awaited, aborted, listeners, cancelCalls,
           cancelBy, bgCancel, response, clientCalls, createCalls, jobCreated,
           addCalls, removeCalls, abortedAt, clientThrew, handlerThrew,
           env, argv, mainPc, exit, handlers, httpPorts, stdio, out,
           transport, sessions, posts, lists, prompt >>

\* The call-tool requests and their handlers.
requestVars == << request, pc, awaited, aborted, listeners, cancelCalls,
                  cancelBy, bgCancel, response, clientCalls, createCalls,
                  jobCreated, addCalls, removeCalls, abortedAt, clientThrew,
                  handlerThrew >>

\* main() and what it sets up.
mainVars == << env, argv, mainPc, exit, handlers, httpPorts, stdio >>

\* The --sse branch.
sseVars == << transport, sessions, posts >>

\* What no step of a call-tool handler touches.
processVars == << mainVars, sseVars, lists, prompt >>

NoRequest == [name |-> "", args |-> NoArguments]

NoPromise == [state |-> "none", ok |-> TRUE, err |-> NoError]

Pending == [state |-> "pending", ok |-> TRUE, err |-> NoError]

Fulfilled(ok) == [state |-> "fulfilled", ok |-> ok, err |-> NoError]

Rejected(e) == [state |-> "rejected", ok |-> FALSE, err |-> e]

(* ------------------------------------------------------------------ *)
(* The process: environment, exit status, log output                  *)
(* ------------------------------------------------------------------ *)

\* A string value of JavaScript.
Str(x) == [defined |-> TRUE, str |-> x]

\* The environment variables that main() of a server reads and tests.
RequiredEnv(srv) ==
  CASE srv = "bigquery" -> {"BIGQUERY_CREDENTIALS"}
    [] srv = "slack"    -> {"SLACK_BOT_TOKEN", "SLACK_TEAM_ID"}
    [] srv = "fetch"    -> {}

\* The values tried for a variable: unset, empty, text that is no JSON, and
\* (for the credentials, which BigQueryClient parses) a JSON object.
EnvValues(n) ==
  {Undefined, Str(""), Str("x")}
    \cup (IF n = "BIGQUERY_CREDENTIALS" THEN {Str("{}")} ELSE {})

Envs(srv) ==
  {e \in [RequiredEnv(srv) -> UNION {EnvValues(n) : n \in RequiredEnv(srv)}] :
     \A n \in RequiredEnv(srv) : e[n] \in EnvValues(n)}

\* An environment with which main() gets past its check and the client's
\* constructor.
ValidEnv(srv) ==
  [n \in RequiredEnv(srv) |->
     IF n = "BIGQUERY_CREDENTIALS" THEN Str("{}") ELSE Str("x")]

\* Variant: the check of the slack server tests the bot token alone.
EnvMissingTokenOnly(srv, e) ==
  CASE srv = "bigquery" -> Not(e["BIGQUERY_CREDENTIALS"])
    [] srv = "slack"    -> Not(e["SLACK_BOT_TOKEN"])
    [] srv = "fetch"    -> FALSE

\* The condition of main's first if: !credentials, or !botToken || !teamId;
\* the fetch server has no such check.
EnvMissing(srv, e) ==
  CASE srv = "bigquery" -> Not(e["BIGQUERY_CREDENTIALS"])
    [] srv = "slack"    -> Not(e["SLACK_BOT_TOKEN"]) \/ Not(e["SLACK_TEAM_ID"])
    [] srv = "fetch"    -> FALSE

\* The line that main logs before process.exit(1).
EnvMessage(srv) ==
  IF srv = "bigquery"
  THEN "Please set BIGQUERY_CREDENTIALS environment variable"
  ELSE "Please set SLACK_BOT_TOKEN and SLACK_TEAM_ID environment variables"

StartingLine(srv) ==
  CASE srv = "bigquery" -> "Starting BigQuery MCP Server..."
    [] srv = "slack"    -> "Starting Slack MCP Server..."
    [] srv = "fetch"    -> "Starting Fetch MCP Server..."

\* new BigQueryClient(credentials) runs JSON.parse(credentials), which throws
\* on text that is no JSON; the other clients' constructors only store.
ConstructorThrows(srv, e) ==
  srv = "bigquery" /\ e["BIGQUERY_CREDENTIALS"].str # "{}"

\* The request schemas that main hands to server.setRequestHandler.
Handlers(srv) ==
  {"CallTool", "ListTools"}
    \cup (IF srv = "fetch" THEN {"ListPrompts", "GetPrompt"} ELSE {})

\* Variant: main never takes the --sse branch.
NeverSse(a) == FALSE

\* process.argv.includes("--sse")
IncludesSse(a) == "--sse" \in a

\* The port given to app.listen.
Port == 3000

\* process.exit was not called.
Running == [exited |-> FALSE, code |-> 0]

\* process.exit(code)
Exit(code) == [exited |-> TRUE, code |-> code]

NoOutput == [stdout |-> {}, stderr |-> {}]

\* Variant: console.error writes to stdout.
ConsoleErrorToStdout(o, line) == [o EXCEPT !.stdout = @ \cup {line}]

\* console.error(line, ...): a line on stderr.
ConsoleError(o, line) == [o EXCEPT !.stderr = @ \cup {line}]

\* console.log(line): a line on stdout.
ConsoleLog(o, line) == [o EXCEPT !.stdout = @ \cup {line}]

\* The catch attached to main(): the line logged before process.exit(1).
FatalLine == "Fatal error in main():"

\* The lines of main() up to the choice of transport.
StartLog(srv) == ConsoleError(NoOutput, StartingLine(srv))

\* The lines of main() in the branch without --sse, once connect resolved.
StdioLog(srv) ==
  ConsoleError(ConsoleError(StartLog(srv), "[stdio] Connecting server to transport..."),
               "[stdio] MCP Server running on stdio")

\* No get-prompt request was received.
NoPrompt == [pc |-> "idle", args |-> NoArguments, awaited |-> NoPromise,
             threw |-> FALSE, err |-> NoError, description |-> "", text |-> ""]

\* The microtask queue is empty: no awaited promise is settled and unconsumed.
MicrotasksIdle ==
  /\ \A r \in Req : awaited[r].state \in {"none", "pending"}
  /\ prompt.awaited.state \in {"none", "pending"}

\* No call-tool request was received.
NoRequests ==
  /\ request = [r \in Req |-> NoRequest]
  /\ pc = [r \in Req |-> "idle"]
  /\ awaited = [r \in Req |-> NoPromise]
  /\ aborted = [r \in Req |-> FALSE]
  /\ listeners = [r \in Req |-> {}]
  /\ cancelCalls = [r \in Req |-> 0]
  /\ cancelBy = [r \in Req |-> {}]
  /\ bgCancel = [r \in Req |-> "none"]
  /\ response = [r \in Req |-> << >>]
  /\ clientCalls = [r \in Req |-> 0]
  /\ createCalls = [r \in Req |-> 0]
  /\ jobCreated = [r \in Req |-> FALSE]
  /\ addCalls = [r \in Req |-> 0]
  /\ removeCalls = [r \in Req |-> 0]
  /\ abortedAt = [r \in Req |-> "never"]
  /\ clientThrew = [r \in Req |-> FALSE]
  /\ handlerThrew = [r \in Req |-> FALSE]

\* No GET /sse, no POST /messages, no list-tools and no get-prompt request
\* was received.
NoTraffic ==
  /\ transport = 0
  /\ sessions = << >>
  /\ posts = << >>
  /\ lists = << >>
  /\ prompt = NoPrompt

\* main() ran without --sse and with a valid environment, and connected the
\* stdio transport.
StdioServing ==
  /\ env = ValidEnv(server)
  /\ argv = {}
  /\ mainPc = "done"
  /\ exit = Running
  /\ handlers = Handlers(server)
  /\ httpPorts = {}
  /\ stdio = "connected"
  /\ out = StdioLog(server)

\* A server that main() has connected to stdio and that has received nothing.
Init ==
  /\ server \in Servers
  /\ NoRequests
  /\ StdioServing
  /\ NoTraffic

\* The start of the process: any environment, with or without --sse.
ServerInit ==
  /\ server \in Servers
  /\ NoRequests
  /\ env \in Envs(server)
  /\ argv \in SUBSET {"--sse"}
  /\ mainPc = "start"
  /\ exit = Running
  /\ handlers = {}
  /\ httpPorts = {}
  /\ stdio = "none"
  /\ out = NoOutput
  /\ NoTraffic

(* ------------------------------------------------------------------ *)
(* The call-tool handler: validation and dispatch                     *)
(* ------------------------------------------------------------------ *)

\* Variant: the content carries the text block twice.
TextContentTwice(text) ==
  << [type |-> "text", text |-> text], [type |-> "text", text |-> text] >>

\* content: [{ type: "text", text }]
TextContent(text) == << [type |-> "text", text |-> text] >>

\* The catch clause of the call-tool handler: the error as a response.
CallToolCatch(e) == TextContent(JsonError(ErrorMessage(e)))

\* Variant: the handler's catch takes Error instances only.
CaughtErrorsOnly(e) == e.isError

\* catch (error) of the handler takes every thrown value.
Caught(e) == TRUE

\* A value thrown inside the handler's try: the response it becomes, or a
\* rejection of the handler towards the transport.
HandlerCatch(e) ==
  IF Caught(e)
  THEN [threw |-> FALSE, content |-> CallToolCatch(e)]
  ELSE [threw |-> TRUE, content |-> << >>]

\* console.error("Error executing tool:", error) of the catch clause, which
\* runs when the clause takes the thrown value.
CatchLog(o, e) ==
  IF HandlerCatch(e).threw THEN o ELSE ConsoleError(o, "Error executing tool:")

\* Variant: the test of request.params.arguments is left out.
AnyArguments(args) == TRUE

\* request.params.arguments is truthy.
HasArguments(args) == args.present

\* Variant: the switch lacks the case of the last tool that list-tools returns.
CaseLabelsWithoutLast(srv) ==
  {ListTools(srv)[i] : i \in 1 .. Len(ListTools(srv)) - 1}

\* The case labels of the handler's switch (request.params.name).
CaseLabels(srv) ==
  CASE srv = "bigquery" -> {"bigquery_execute_query", "bigquery_dry_run_query",
                            "bigquery_get_job", "bigquery_cancel_job"}
    [] srv = "slack"    -> {"slack_get_user_profile"}
    [] srv = "fetch"    -> {"fetch"}

\* The property of args that the case tests with `!args.<field>`.
CheckedField(name) ==
  CASE name = "bigquery_execute_query" -> "query"
    [] name = "bigquery_dry_run_query" -> "query"
    [] name = "bigquery_get_job"       -> "jobId"
    [] name = "bigquery_cancel_job"    -> "jobId"
    [] name = "slack_get_user_profile" -> "user_id"
    [] name = "fetch"                  -> "url"

\* The case's test of its field: TRUE when the case throws.
FieldMissing(args, name) == Not(Get(args, CheckedField(name)))

\* The message of the Error that the case throws when its field test fails.
MissingMessage(name) ==
  IF name = "fetch"
  THEN "URL is required"
  ELSE "Missing required argument: " \o CheckedField(name)

\* The message of the default case.
UnknownToolMessage(name) == "Unknown tool: " \o name

\* What the handler does before its first await: throw (into its own catch)
\* or call the client method of the tool.
Dispatch(srv, name, args) ==
  IF ~HasArguments(args)
  THEN [kind |-> "throw", err |-> Error("No arguments provided")]
  ELSE IF name \notin CaseLabels(srv)
  THEN [kind |-> "throw", err |-> Error(UnknownToolMessage(name))]
  ELSE IF FieldMissing(args, name)
  THEN [kind |-> "throw", err |-> Error(MissingMessage(name))]
  ELSE [kind |-> "call", err |-> NoError]

\* The first upstream call that the client method of a tool awaits.
FirstAwait(name) ==
  CASE name = "bigquery_execute_query" -> "createQueryJob"
    [] name = "bigquery_dry_run_query" -> "dryRun.createQueryJob"
    [] name = "bigquery_get_job"       -> "getJob.getMetadata"
    [] name = "bigquery_cancel_job"    -> "cancelJob.cancel"
    [] name = "slack_get_user_profile" -> "slack.fetch"
    [] name = "fetch"                  -> "fetch.fetch"

\* Only the bigquery_execute_query case hands extra.signal on (to executeQuery);
\* no other code reads a request's signal, and its state is tracked for these
\* requests alone.
PassesSignal(name) == name = "bigquery_execute_query"

\* A call-tool request arrives on the connected stdio transport and its
\* handler runs up to its first await.  sig is extra.signal.aborted at that
\* moment.  Requests are numbered in order of arrival.
CallTool(r, name, args, sig) ==
  /\ pc[r] = "idle"
  /\ IF r = 1 THEN TRUE ELSE pc[r - 1] # "idle"
  /\ stdio = "connected"
  /\ "CallTool" \in handlers
  /\ MicrotasksIdle
  /\ sig => PassesSignal(name)
  /\ request' = [request EXCEPT ![r] = [name |-> name, args |-> args]]
  /\ aborted' = [aborted EXCEPT ![r] = sig]
  /\ abortedAt' = [abortedAt EXCEPT ![r] = IF sig THEN "before" ELSE "never"]
  /\ LET d == Dispatch(server, name, args)
         received == ConsoleError(out, "Received CallToolRequest:")
     IN
       IF d.kind = "throw"
       THEN /\ response' = [response EXCEPT ![r] = HandlerCatch(d.err).content]
            /\ handlerThrew' = [handlerThrew EXCEPT ![r] = HandlerCatch(d.err).threw]
            /\ out' = CatchLog(received, d.err)
            /\ pc' = [pc EXCEPT ![r] = "done"]
            /\ UNCHANGED << awaited, clientCalls, createCalls >>
       ELSE /\ pc' = [pc EXCEPT ![r] = FirstAwait(name)]
            /\ awaited' = [awaited EXCEPT ![r] = Pending]
            /\ clientCalls' = [clientCalls EXCEPT ![r] = @ + 1]
            /\ createCalls' = [createCalls EXCEPT ![r] =
                 IF name = "bigquery_execute_query" THEN @ + 1 ELSE @]
            /\ out' = received
            /\ UNCHANGED << response, handlerThrew >>
  /\ UNCHANGED << server, listeners, cancelCalls, cancelBy, bgCancel, jobCreated,
                  addCalls, removeCalls, clientThrew >>
  /\ UNCHANGED processVars

(* ------------------------------------------------------------------ *)
(* Client methods, one step per await                                 *)
(* ------------------------------------------------------------------ *)

\* What a client method does when the promise it awaits settles: return a
\* value to the handler, throw into the handler, or await the next call.
Return(text) == [kind |-> "return", text |-> text, err |-> NoError, next |-> ""]

Throw(e) == [kind |-> "throw", text |-> "", err |-> e, next |-> ""]

Await(next) == [kind |-> "await", text |-> "", err |-> NoError, next |-> next]

\* JSON.stringify({ success: false, error: msg })
FailureJson(msg) == "{\"success\":false,\"error\":" \o JsonString(msg) \o "}"

\* JSON.stringify({ success: true, rows, jobId: job.id })
ExecuteQuerySuccess(r) ==
  "{\"success\":true,\"rows\":" \o RowsJson \o ",\"jobId\":" \o JsonString(JobId(r)) \o "}"

\* JSON.stringify({ success: false, error: "Request was cancelled", jobId: job.id })
ExecuteQueryCancelled(r) ==
  "{\"success\":false,\"error\":\"Request was cancelled\",\"jobId\":"
    \o JsonString(JobId(r)) \o "}"

\* The catch clause of executeQuery.
ExecuteQueryCatch(e) ==
  IF e.isError /\ e.name = "AbortError"
  THEN Return(FailureJson("Request was cancelled"))
  ELSE Return(FailureJson(ErrorMessage(e)))

\* The catch clause of dryRunQuery, getJob and cancelJob.
ClientCatch(e) == Return(FailureJson(ErrorMessage(e)))

\* Sample results of dryRunQuery (1 TiB processed), getJob and cancelJob.
DryRunSuccess ==
  "{\"success\":true,\"bytesProcessed\":\"1099511627776\",\"costInUSD\":5,\"jobId\":\"dry\"}"

GetJobSuccess(jobId) ==
  "{\"success\":true,\"jobId\":" \o JsonString(jobId)
    \o ",\"status\":{\"state\":\"DONE\"},\"statistics\":{},\"configuration\":{}}"

CancelJobSuccess(jobId) ==
  "{\"success\":true,\"jobId\":" \o JsonString(jobId) \o ",\"status\":{\"state\":\"DONE\"}}"

\* Sample body of users.profile.get, as JSON.stringify renders it.
ProfileJson == "{\"ok\":true,\"profile\":{}}"

\* Sample body of a fetched page.
Body == "<html>ok</html>"

\* throw new Error(`Failed to fetch ${url}: ${error}`) of fetchUrl's catch.
FetchUrlCatch(url, e) == Throw(Error("Failed to fetch " \o url \o ": " \o String(e)))

\* throw new Error(`Failed to fetch ${url} - status code ${response.status}`),
\* for a sample status of 404; thrown inside fetchUrl's own try.
NotOk(url) == Error("Failed to fetch " \o url \o " - status code 404")

\* Variant: the handler returns the body without the heading.
ContentsOfBodyOnly(url, content) == content

\* `Contents of ${args.url}:\n${content}`
ContentsOf(url, content) == "Contents of " \o url \o ":\n" \o content

\* dryRunQuery, getJob, cancelJob, getUserProfile and fetchUrl (with the
\* handler's rendering of the result) when the promise p they await at label
\* l settles; a is the tool's argument.
ClientResume(l, p, a) ==
  CASE l = "dryRun.createQueryJob" ->
         IF p.state = "fulfilled" THEN Return(DryRunSuccess) ELSE ClientCatch(p.err)
    [] l = "getJob.getMetadata" ->
         IF p.state = "fulfilled" THEN Return(GetJobSuccess(a)) ELSE ClientCatch(p.err)
    [] l = "cancelJob.cancel" ->
         IF p.state = "fulfilled" THEN Await("cancelJob.getMetadata")
         ELSE ClientCatch(p.err)
    [] l = "cancelJob.getMetadata" ->
         IF p.state = "fulfilled" THEN Return(CancelJobSuccess(a)) ELSE ClientCatch(p.err)
    [] l = "slack.fetch" ->
         IF p.state = "fulfilled" THEN Await("slack.json") ELSE Throw(p.err)
    [] l = "slack.json" ->
         IF p.state = "fulfilled" THEN Return(ProfileJson) ELSE Throw(p.err)
    [] l = "fetch.fetch" ->
         IF p.state = "fulfilled"
         THEN IF p.ok THEN Await("fetch.text") ELSE FetchUrlCatch(a, NotOk(a))
         ELSE FetchUrlCatch(a, p.err)
    [] l = "fetch.text" ->
         IF p.state = "fulfilled" THEN Return(ContentsOf(a, Body))
         ELSE FetchUrlCatch(a, p.err)

\* The handler after a step s of the client method it awaits.
Finish(r, s) ==
  /\ pc' = [pc EXCEPT ![r] = IF s.kind = "await" THEN s.next ELSE "done"]
  /\ awaited' = [awaited EXCEPT ![r] = IF s.kind = "await" THEN Pending ELSE NoPromise]
  /\ response' = [response EXCEPT ![r] =
       CASE s.kind = "return" -> TextContent(s.text)
         [] s.kind = "throw"  -> HandlerCatch(s.err).content
         [] OTHER             -> @]
  /\ clientThrew' = [clientThrew EXCEPT ![r] = @ \/ s.kind = "throw"]
  /\ handlerThrew' = [handlerThrew EXCEPT ![r] =
       @ \/ (s.kind = "throw" /\ HandlerCatch(s.err).threw)]
  /\ out' = IF s.kind = "throw" THEN CatchLog(out, s.err) ELSE out

Settled(r) == awaited[r].state \in {"fulfilled", "rejected"}

OtherLabels == {"dryRun.createQueryJob", "getJob.getMetadata", "cancelJob.cancel",
                "cancelJob.getMetadata", "slack.fetch", "slack.json",
                "fetch.fetch", "fetch.text"}

\* The continuation of a handler whose tool is not bigquery_execute_query.
ResumeClient(r) ==
  /\ pc[r] \in OtherLabels
  /\ Settled(r)
  /\ Finish(r, ClientResume(pc[r], awaited[r],
                            Get(request[r].args, CheckedField(request[r].name)).str))
  /\ UNCHANGED << server, request, aborted, listeners, cancelCalls, cancelBy,
                  bgCancel, clientCalls, createCalls, jobCreated, addCalls,
                  removeCalls, abortedAt >>
  /\ UNCHANGED processVars

(* ------------------------------------------------------------------ *)
(* BigQueryClient.executeQuery and its abort listener                 *)
(* ------------------------------------------------------------------ *)

\* Variant: the test of signal.aborted after createQueryJob is left out.
NeverAborted(r) == FALSE

\* Variant: executeQuery reads the signal of the first request.
FirstSignalAborted(r) == aborted[1]

\* signal?.aborted, read after createQueryJob resolved.
SignalAborted(r) == aborted[r]

\* Variant: every executeQuery listens on the signal of the first request.
SharedSignal(r) == 1

\* The signal that executeQuery of request r listens on: extra.signal of r.
ListenerSignal(r) == r

\* Variant: executeQuery does not attach onAbort to the signal.
NoListener(ls, s, j) == ls

\* signal.addEventListener("abort", onAbort, { once: true }), onAbort
\* cancelling job j.
AddEventListener(ls, s, j) == [ls EXCEPT ![s] = @ \cup {j}]

\* Variant: the finally clause does not detach the listener.
KeepListener(ls, s, j) == ls

\* signal.removeEventListener("abort", onAbort) in the finally clause.
RemoveEventListener(ls, s, j) == [ls EXCEPT ![s] = @ \ {j}]

\* { once: true }: the listeners of signal s are detached as its abort event
\* is dispatched.
Once(ls, s) == [ls EXCEPT ![s] = {}]

\* The jobs that the listeners run by an abort of signal s cancel.
OnAbort(s) == listeners[s]

\* Variant: onAbort calls job.cancel() without attaching a catch.
OnAbortUncaught == "unhandled"

\* job.cancel().catch(...) in onAbort: a rejection is logged by the handler
\* attached with catch.
OnAbortRejected == "caught"

\* createQueryJob settled: the catch clause, or, with the job, the branch on
\* signal.aborted (cancel and wait for it) or the listener and getQueryResults.
ResumeCreateQueryJob(r) ==
  /\ pc[r] = "createQueryJob"
  /\ Settled(r)
  /\ IF awaited[r].state = "rejected"
     THEN /\ Finish(r, ExecuteQueryCatch(awaited[r].err))
          /\ UNCHANGED << jobCreated, cancelCalls, cancelBy, listeners, addCalls >>
     ELSE /\ jobCreated' = [jobCreated EXCEPT ![r] = TRUE]
          /\ IF SignalAborted(r)
             THEN /\ cancelCalls' = [cancelCalls EXCEPT ![r] = @ + 1]
                  /\ cancelBy' = [cancelBy EXCEPT ![r] = @ \cup {r}]
                  /\ Finish(r, Await("job.cancel"))
                  /\ UNCHANGED << listeners, addCalls >>
             ELSE /\ listeners' = AddEventListener(listeners, ListenerSignal(r), r)
                  /\ addCalls' = [addCalls EXCEPT ![r] = @ + 1]
                  /\ Finish(r, Await("getQueryResults"))
                  /\ UNCHANGED << cancelCalls, cancelBy >>
  /\ UNCHANGED << server, request, aborted, bgCancel, clientCalls, createCalls,
                  removeCalls, abortedAt >>
  /\ UNCHANGED processVars

\* await job.cancel() of the aborted branch settled.
ResumeJobCancel(r) ==
  /\ pc[r] = "job.cancel"
  /\ Settled(r)
  /\ Finish(r, IF awaited[r].state = "rejected"
               THEN ExecuteQueryCatch(awaited[r].err)
               ELSE Return(ExecuteQueryCancelled(r)))
  /\ UNCHANGED << server, request, aborted, listeners, cancelCalls, cancelBy,
                  bgCancel, clientCalls, createCalls, jobCreated, addCalls,
                  removeCalls, abortedAt >>
  /\ UNCHANGED processVars

\* job.getQueryResults() settled: the finally clause, then the result or the
\* catch clause.
ResumeGetQueryResults(r) ==
  /\ pc[r] = "getQueryResults"
  /\ Settled(r)
  /\ listeners' = RemoveEventListener(listeners, ListenerSignal(r), r)
  /\ removeCalls' = [removeCalls EXCEPT ![r] = @ + 1]
  /\ Finish(r, IF awaited[r].state = "rejected"
               THEN ExecuteQueryCatch(awaited[r].err)
               ELSE Return(ExecuteQuerySuccess(r)))
  /\ UNCHANGED << server, request, aborted, cancelCalls, cancelBy, bgCancel,
                  clientCalls, createCalls, jobCreated, addCalls, abortedAt >>
  /\ UNCHANGED processVars

(* ------------------------------------------------------------------ *)
(* Events from outside                                                *)
(* ------------------------------------------------------------------ *)

\* The signal of request r is aborted: its listeners run, each calling
\* job.cancel() on its job without awaiting it.
Abort(r) ==
  /\ pc[r] # "idle"
  /\ PassesSignal(request[r].name)
  /\ ~aborted[r]
  /\ MicrotasksIdle
  /\ aborted' = [aborted EXCEPT ![r] = TRUE]
  /\ abortedAt' = [abortedAt EXCEPT ![r] = pc[r]]
  /\ cancelCalls' = [j \in Req |-> IF j \in OnAbort(r) THEN cancelCalls[j] + 1
                                   ELSE cancelCalls[j]]
  /\ cancelBy' = [j \in Req |-> IF j \in OnAbort(r) THEN cancelBy[j] \cup {r}
                                ELSE cancelBy[j]]
  /\ bgCancel' = [j \in Req |-> IF j \in OnAbort(r) THEN "pending" ELSE bgCancel[j]]
  /\ listeners' = Once(listeners, r)
  /\ UNCHANGED << server, request, pc, awaited, response, clientCalls, createCalls,
                  jobCreated, addCalls, removeCalls, clientThrew, handlerThrew >>
  /\ UNCHANGED << out, processVars >>

\* The outcomes of the upstream call awaited at label l.
Outcomes(l) ==
  {Fulfilled(TRUE)} \cup {Rejected(e) : e \in Rejections}
    \cup (IF l = "fetch.fetch" THEN {Fulfilled(FALSE)} ELSE {})

\* The upstream call that handler r awaits settles with outcome p.
Settle(r, p) ==
  /\ awaited[r].state = "pending"
  /\ MicrotasksIdle
  /\ p \in Outcomes(pc[r])
  /\ awaited' = [awaited EXCEPT ![r] = p]
  /\ UNCHANGED << server, request, pc, aborted, listeners, cancelCalls, cancelBy,
                  bgCancel, response, clientCalls, createCalls, jobCreated,
                  addCalls, removeCalls, abortedAt, clientThrew, handlerThrew >>
  /\ UNCHANGED << out, processVars >>

\* The job.cancel() that onAbort called for job j settles.
CancelSettle(j, ok) ==
  /\ bgCancel[j] = "pending"
  /\ MicrotasksIdle
  /\ bgCancel' = [bgCancel EXCEPT ![j] = IF ok THEN "fulfilled" ELSE OnAbortRejected]
  /\ out' = IF ~ok /\ OnAbortRejected = "caught"
            THEN ConsoleError(out, "Failed to cancel BigQuery job:")
            ELSE out
  /\ UNCHANGED << server, request, pc, awaited, aborted, listeners, cancelCalls,
                  cancelBy, response, clientCalls, createCalls, jobCreated,
                  addCalls, removeCalls, abortedAt, clientThrew, handlerThrew >>
  /\ UNCHANGED processVars

(* ------------------------------------------------------------------ *)
(* main(): environment check, handlers, choice of transport           *)
(* ------------------------------------------------------------------ *)

\* main() runs up to its first await, or to its end.  A value thrown on the
\* way rejects main(), whose catch logs it and exits.
Main ==
  /\ mainPc = "start"
  /\ IF EnvMissing(server, env)
     THEN /\ out' = ConsoleError(out, EnvMessage(server))
          /\ exit' = Exit(1)
          /\ mainPc' = "exited"
          /\ UNCHANGED << handlers, httpPorts, stdio >>
     ELSE IF ConstructorThrows(server, env)
     THEN /\ out' = ConsoleError(ConsoleError(out, StartingLine(server)), FatalLine)
          /\ exit' = Exit(1)
          /\ mainPc' = "exited"
          /\ UNCHANGED << handlers, httpPorts, stdio >>
     ELSE /\ handlers' = Handlers(server)
          /\ exit' = exit
          /\ IF IncludesSse(argv)
             THEN /\ httpPorts' = httpPorts \cup {Port}
                  /\ mainPc' = "listen"
                  /\ out' = ConsoleError(out, StartingLine(server))
                  /\ stdio' = stdio
             ELSE /\ stdio' = "connecting"
                  /\ mainPc' = "connect"
                  /\ out' = ConsoleError(ConsoleError(out, StartingLine(server)),
                                         "[stdio] Connecting server to transport...")
                  /\ httpPorts' = httpPorts
  /\ UNCHANGED << server, requestVars, env, argv, sseVars, lists, prompt >>

\* The callback of app.listen: the server listens.
ListenCallback ==
  /\ mainPc = "listen"
  /\ out' = ConsoleLog(out, "[sse] MCP Server running on http://localhost:3000")
  /\ mainPc' = "done"
  /\ UNCHANGED << server, requestVars, env, argv, exit, handlers, httpPorts, stdio,
                  sseVars, lists, prompt >>

\* await server.connect(transport) of the branch without --sse settles: main
\* logs and returns, or rejects into its catch.
ConnectSettle(ok) ==
  /\ mainPc = "connect"
  /\ IF ok
     THEN /\ stdio' = "connected"
          /\ out' = ConsoleError(out, "[stdio] MCP Server running on stdio")
          /\ mainPc' = "done"
          /\ exit' = exit
     ELSE /\ stdio' = "failed"
          /\ out' = ConsoleError(out, FatalLine)
          /\ mainPc' = "exited"
          /\ exit' = Exit(1)
  /\ UNCHANGED << server, requestVars, env, argv, handlers, httpPorts, sseVars,
                  lists, prompt >>

(* ------------------------------------------------------------------ *)
(* The --sse branch: GET /sse and POST /messages                      *)
(* ------------------------------------------------------------------ *)

\* Variant: the handler of POST /messages calls next() when it has no
\* transport, and express answers the request itself.
NextCalledWithoutTransport == TRUE

\* The handler of POST /messages is (req, res) => ...: it takes no next and
\* passes the request to no further middleware.
NextCalled == FALSE

\* Who answers the HTTP request of a POST /messages: the transport that res
\* was handed to, express (after next()), or nobody.
PostAnswer(called) ==
  IF called THEN "transport" ELSE IF NextCalled THEN "express" ELSE "none"

\* The HTTP server accepts requests.
Listening == mainPc = "done" /\ httpPorts # {} /\ ~exit.exited

\* Variant: a GET /sse keeps the transport of the first session.
KeepFirstTransport(t, k) == IF t = 0 THEN k ELSE t

\* transport = new SSEServerTransport("/messages", res), for the k-th GET /sse.
NewTransport(t, k) == k

\* Variant: the test of transport is left out.
AlwaysTruthy(t) == TRUE

\* if (transport)
Truthy(t) == t # 0

\* The k-th GET /sse: a session with an open event stream, to which no POST
\* was handed yet.
NewSession == [stream |-> "open", received |-> {}]

\* The event stream of the session that t stands for is open.
StreamOpen(t) == t \in DOMAIN sessions /\ sessions[t].stream = "open"

\* app.get("/sse"): a new transport is stored and the server connected to it.
GetSse ==
  /\ Listening
  /\ MicrotasksIdle
  /\ Len(sessions) < MaxSessions
  /\ sessions' = Append(sessions, NewSession)
  /\ transport' = NewTransport(transport, Len(sessions) + 1)
  /\ UNCHANGED << server, requestVars, mainVars, out, posts, lists, prompt >>

\* The client of session k goes away and its event stream closes; the
\* handlers of main attach nothing to that event.
CloseStream(k) ==
  /\ Listening
  /\ MicrotasksIdle
  /\ k \in DOMAIN sessions
  /\ sessions[k].stream = "open"
  /\ sessions' = [sessions EXCEPT ![k].stream = "closed"]
  /\ UNCHANGED << server, requestVars, mainVars, out, transport, posts, lists, prompt >>

\* The handler of ListToolsRequest: a log line and the response.
HandleListTools ==
  /\ "ListTools" \in handlers
  /\ out' = ConsoleError(out, "Received ListToolsRequest")
  /\ lists' = Append(lists, ListTools(server))

\* app.post("/messages") with a list-tools request in the body: it is handed
\* to the stored transport, if there is one.  A transport whose stream is
\* open passes the request on to the server (dispatch); what a transport
\* whose stream is closed does with it is up to the SDK.
PostMessage(dispatch) ==
  /\ Listening
  /\ MicrotasksIdle
  /\ Len(posts) < MaxMsgs
  /\ StreamOpen(transport) => dispatch
  /\ LET called == Truthy(transport)
         p == Len(posts) + 1
     IN
       /\ posts' = Append(posts, [handle |-> transport,
                                  opened |-> Len(sessions),
                                  streamOpen |-> StreamOpen(transport),
                                  called |-> called,
                                  dispatched |-> called /\ dispatch,
                                  answer |-> PostAnswer(called)])
       /\ sessions' = IF called /\ transport \in DOMAIN sessions
                      THEN [sessions EXCEPT ![transport].received = @ \cup {p}]
                      ELSE sessions
       /\ IF called /\ dispatch
          THEN HandleListTools
          ELSE UNCHANGED << out, lists >>
  /\ UNCHANGED << server, requestVars, mainVars, transport, prompt >>

(* ------------------------------------------------------------------ *)
(* Requests other than call-tool on the stdio transport               *)
(* ------------------------------------------------------------------ *)

\* A list-tools request arrives on the connected stdio transport.
StdinListTools ==
  /\ stdio = "connected"
  /\ MicrotasksIdle
  /\ Len(lists) < MaxMsgs
  /\ HandleListTools
  /\ UNCHANGED << server, requestVars, mainVars, sseVars, prompt >>

(* ------------------------------------------------------------------ *)
(* The get-prompt handler of the fetch server                         *)
(* ------------------------------------------------------------------ *)

\* FetchClient.fetchUrl when the promise p it awaits at label l settles.
FetchUrl(l, p, url) ==
  CASE l = "fetch.fetch" ->
         IF p.state = "fulfilled"
         THEN IF p.ok THEN Await("fetch.text") ELSE FetchUrlCatch(url, NotOk(url))
         ELSE FetchUrlCatch(url, p.err)
    [] l = "fetch.text" ->
         IF p.state = "fulfilled" THEN Return(Body) ELSE FetchUrlCatch(url, p.err)

\* The return value of the handler after a successful fetch.
PromptSuccess(url, content) ==
  [threw |-> FALSE, err |-> NoError,
   description |-> "Contents of " \o url, text |-> content]

\* Variant: the inner catch clause throws the error on.
PromptInnerRethrow(url, e) ==
  [threw |-> TRUE, err |-> e, description |-> "", text |-> ""]

\* The inner catch clause: the error of fetchUrl as the text of the message.
PromptInnerCatch(url, e) ==
  [threw |-> FALSE, err |-> NoError,
   description |-> "Failed to fetch " \o url, text |-> ErrorMessage(e)]

\* The outer catch clause logs the error and throws it on: the handler
\* rejects to the transport.
PromptOuterCatch(e) ==
  [threw |-> TRUE, err |-> e, description |-> "", text |-> ""]

\* The handler is through, with result res.
PromptDone(args, res) ==
  [pc |-> "done", args |-> args, awaited |-> NoPromise, threw |-> res.threw,
   err |-> res.err, description |-> res.description, text |-> res.text]

\* A get-prompt request arrives on the connected stdio transport and its
\* handler runs up to its first await.
GetPrompt(args) ==
  /\ stdio = "connected"
  /\ "GetPrompt" \in handlers
  /\ prompt.pc = "idle"
  /\ MicrotasksIdle
  /\ LET received == ConsoleError(out, "Received GetPromptRequest:") IN
       IF Not(Get(args, "url"))
       THEN /\ prompt' = PromptDone(args, PromptOuterCatch(Error("URL is required")))
            /\ out' = ConsoleError(received, "Error handling prompt:")
       ELSE /\ prompt' = [NoPrompt EXCEPT !.pc = "fetch.fetch", !.args = args,
                                          !.awaited = Pending]
            /\ out' = received
  /\ UNCHANGED << server, requestVars, mainVars, sseVars, lists >>

\* The call that fetchUrl awaits for the get-prompt handler settles.
PromptSettle(p) ==
  /\ prompt.awaited.state = "pending"
  /\ MicrotasksIdle
  /\ p \in Outcomes(prompt.pc)
  /\ prompt' = [prompt EXCEPT !.awaited = p]
  /\ UNCHANGED << server, requestVars, mainVars, sseVars, lists, out >>

\* The continuation of the get-prompt handler.
PromptResume ==
  /\ prompt.awaited.state \in {"fulfilled", "rejected"}
  /\ LET url == Get(prompt.args, "url").str
         s == FetchUrl(prompt.pc, prompt.awaited, url)
     IN prompt' =
          CASE s.kind = "await"  -> [prompt EXCEPT !.pc = s.next, !.awaited = Pending]
            [] s.kind = "return" -> PromptDone(prompt.args, PromptSuccess(url, s.text))
            [] s.kind = "throw"  -> PromptDone(prompt.args, PromptInnerCatch(url, s.err))
  /\ UNCHANGED << server, requestVars, mainVars, sseVars, lists, out >>

(* ------------------------------------------------------------------ *)
(* Specifications                                                     *)
(* ------------------------------------------------------------------ *)

\* The steps that a handler takes by itself once the promise it awaits settled.
Resume(r) ==
  \/ ResumeCreateQueryJob(r)
  \/ ResumeJobCancel(r)
  \/ ResumeGetQueryResults(r)
  \/ ResumeClient(r)

Next ==
  \/ \E r \in Req :
       /\ pc[r] = "idle"
       /\ \E sig \in BOOLEAN, name \in NamesFor(server) :
            \E args \in ArgsFor(name, IF name = UnknownName THEN "query"
                                       ELSE SchemaRequired(name)) :
              CallTool(r, name, args, sig)
  \/ \E r \in Req : Resume(r)
  \/ \E r \in Req : Abort(r)
  \/ \E r \in Req : \E p \in Outcomes(pc[r]) : Settle(r, p)
  \/ \E j \in Req, ok \in BOOLEAN : CancelSettle(j, ok)

Spec == Init /\ [][Next]_vars

\* The handler's own steps are taken once they are enabled; nothing obliges
\* the upstream system to settle a call, nor a client to send or abort one.
FairSpec == Spec /\ \A r \in Req : WF_vars(Resume(r))

\* The process from its start on: main(), then the HTTP endpoints of the
\* --sse branch or the requests read from stdin.
ServerNext ==
  \/ Main
  \/ ListenCallback
  \/ \E ok \in BOOLEAN : ConnectSettle(ok)
  \/ GetSse
  \/ \E k \in 1 .. MaxSessions : CloseStream(k)
  \/ \E dispatch \in BOOLEAN : PostMessage(dispatch)
  \/ StdinListTools
  \/ \E args \in ArgsFor("fetch", "url") : GetPrompt(args)
  \/ \E p \in Outcomes(prompt.pc) : PromptSettle(p)
  \/ PromptResume
  \/ \E r \in Served :
       /\ pc[r] = "idle"
       /\ \E sig \in BOOLEAN, name \in NamesFor(server) :
            \E args \in ArgsFor(name, IF name = UnknownName THEN "query"
                                       ELSE SchemaRequired(name)) :
              CallTool(r, name, args, sig)
  \/ \E r \in Served : Resume(r)
  \/ \E r \in Served : Abort(r)
  \/ \E r \in Served : \E p \in Outcomes(pc[r]) : Settle(r, p)
  \/ \E j \in Served, ok \in BOOLEAN : CancelSettle(j, ok)

ServerSpec == ServerInit /\ [][ServerNext]_vars

(* ------------------------------------------------------------------ *)
(* Properties                                                         *)
(* ------------------------------------------------------------------ *)

\* The names that list-tools returns.
Registered(srv) == {ListTools(srv)[i] : i \in 1 .. Len(ListTools(srv))}

Received(r) == pc[r] # "idle"

IsExecuteQuery(r) == Received(r) /\ request[r].name = "bigquery_execute_query"

\* Request r passed the handler's validation and reached executeQuery.
ReachedExecuteQuery(r) ==
  IsExecuteQuery(r) /\ Dispatch(server, request[r].name, request[r].args).kind = "call"

\* The response is the failure envelope {"error": msg}.
IsFailure(r, msg) == response[r] = TextContent(JsonError(msg))

\* The signal fired while executeQuery was between its createQueryJob call and
\* its return.
AbortedInFlight(r) == abortedAt[r] \in {"createQueryJob", "job.cancel", "getQueryResults"}

\* C1 (as claimed): a bigquery_execute_query request whose signal is already
\* aborted when the handler starts never calls createQueryJob, and its
\* response is the failure envelope "Request was cancelled".
C1_PreAbortedNeverStartsUpstream ==
  \A r \in Req :
    (ReachedExecuteQuery(r) /\ abortedAt[r] = "before") =>
      /\ createCalls[r] = 0
      /\ pc[r] = "done" => IsFailure(r, "Request was cancelled")

\* C2 (as claimed): once executeQuery has returned, a signal that fired after
\* the createQueryJob call and before the return has led to exactly one
\* job.cancel() on the request's job, whatever the upstream outcome.
C2_ExactlyOneCancelOnceStarted ==
  \A r \in Req :
    (pc[r] = "done" /\ AbortedInFlight(r)) => cancelCalls[r] = 1

\* C2 (amended): never more than one job.cancel() is made on a request's job;
\* once executeQuery has returned after an abort in flight, exactly one was
\* made if createQueryJob resolved with a job, and none if it rejected.
C2_ExactlyOneCancelOfCreatedJob ==
  \A r \in Req :
    /\ cancelCalls[r] <= 1
    /\ (pc[r] = "done" /\ AbortedInFlight(r)) =>
         cancelCalls[r] = (IF jobCreated[r] THEN 1 ELSE 0)

\* C2 witness: two requests have returned, one aborted while createQueryJob was
\* pending and one while getQueryResults was pending, each with one cancel.
C2_Witness ==
  \E a, b \in Req :
    /\ pc[a] = "done" /\ abortedAt[a] = "createQueryJob" /\ cancelCalls[a] = 1
    /\ pc[b] = "done" /\ abortedAt[b] = "getQueryResults" /\ cancelCalls[b] = 1

\* C3: once the handler has returned, no abort listener of the request is
\* attached to any signal; the listener is registered at most once, and
\* removeEventListener has been called exactly once when it was registered
\* and getQueryResults has settled, and not at all otherwise.
C3_NoListenerLeak ==
  \A r \in Req :
    /\ pc[r] = "done" => \A s \in Req : r \notin listeners[s]
    /\ addCalls[r] <= 1
    /\ removeCalls[r] = (IF addCalls[r] = 1 /\ pc[r] = "done" THEN 1 ELSE 0)

\* C3 witness: one request returned after its abort listener had fired, another
\* returned with its signal never aborted; both deregistered once.
C3_Witness ==
  \E a, b \in Req :
    /\ pc[a] = "done" /\ abortedAt[a] = "getQueryResults" /\ removeCalls[a] = 1
    /\ pc[b] = "done" /\ abortedAt[b] = "never" /\ addCalls[b] = 1
    /\ removeCalls[b] = 1

\* C4: a job.cancel() on the job of a request is only ever caused by that
\* request's own signal, and a step in which the signal of request a fires
\* changes neither the cancel count, the progress nor the response of any
\* other request b.
C4_AbortTouchesOwnJobOnly ==
  /\ [](\A j \in Req : cancelBy[j] \subseteq {j} /\ (cancelCalls[j] > 0 => aborted[j]))
  /\ [][\A a, b \in Req :
          (a # b /\ ~aborted[a] /\ aborted'[a]) =>
            /\ cancelCalls'[b] = cancelCalls[b]
            /\ pc'[b] = pc[b]
            /\ awaited'[b] = awaited[b]
            /\ response'[b] = response[b]]_vars

\* C4 witness: two queries are in flight, the signal of one has fired and
\* cancelled its job, the other still waits for its results, uncancelled, with
\* its listener attached.
C4_Witness ==
  \E a, b \in Req :
    /\ a # b
    /\ pc[a] = "getQueryResults" /\ abortedAt[a] = "getQueryResults"
    /\ cancelCalls[a] = 1
    /\ pc[b] = "getQueryResults" /\ ~aborted[b] /\ cancelCalls[b] = 0
    /\ b \in listeners[b]

\* C5 (as claimed): with the handler's own steps fair, an abort that arrives
\* while getQueryResults is pending leads to the handler returning.
C5_CancelledHandlerReturns ==
  \A r \in Req : (abortedAt[r] = "getQueryResults") ~> (pc[r] = "done")

\* C6: no rejection of job.cancel() is left unhandled: the one made in onAbort
\* is caught, and executeQuery never throws into its caller, so the call-tool
\* handler does not reject either.
C6_CancelRejectionHandled ==
  \A r \in Req :
    /\ bgCancel[r] # "unhandled"
    /\ IsExecuteQuery(r) => (~clientThrew[r] /\ ~handlerThrew[r])

\* C6 witness: the job.cancel() of one request's listener was rejected and
\* caught; the awaited job.cancel() of another request, whose signal was
\* aborted before the job existed, was rejected and became its result.
C6_Witness ==
  \E a, b \in Req :
    /\ bgCancel[a] = "caught"
    /\ pc[b] = "done" /\ jobCreated[b] /\ addCalls[b] = 0 /\ cancelCalls[b] = 1
    /\ response[b] = TextContent(FailureJson("upstream failure"))

\* C7: a request without an arguments object, for any tool name, is answered
\* with the failure envelope "No arguments provided"; no client method and no
\* upstream call is made for it and the handler does not throw.
C7_NoArguments ==
  \A r \in Req :
    (Received(r) /\ ~request[r].args.present) =>
      /\ pc[r] = "done"
      /\ IsFailure(r, "No arguments provided")
      /\ clientCalls[r] = 0 /\ createCalls[r] = 0
      /\ ~handlerThrew[r]

\* C7 witness: a registered and an unregistered tool name were both called
\* without arguments.
C7_Witness ==
  \E a, b \in Req :
    /\ Received(a) /\ ~request[a].args.present /\ request[a].name \in Registered(server)
    /\ Received(b) /\ ~request[b].args.present /\ request[b].name = UnknownName
    /\ IsFailure(a, "No arguments provided") /\ IsFailure(b, "No arguments provided")

\* C8: with an arguments object, a tool name that list-tools does not return
\* is answered with the failure envelope "Unknown tool: <name>" and no client
\* method is called; a name that list-tools returns has a case in the switch
\* and is never answered with "Unknown tool".
C8_UnknownTool ==
  /\ \A srv \in Servers : Registered(srv) \subseteq CaseLabels(srv)
  /\ \A r \in Req :
       (Received(r) /\ request[r].args.present) =>
         IF request[r].name \in Registered(server)
         THEN ~IsFailure(r, "Unknown tool: " \o request[r].name)
         ELSE /\ pc[r] = "done"
              /\ IsFailure(r, "Unknown tool: " \o request[r].name)
              /\ clientCalls[r] = 0

\* C8 witness: an unregistered name was called with arguments and answered
\* "Unknown tool: no_such_tool", and a registered name reached its client.
C8_Witness ==
  \E a, b \in Req :
    /\ Received(a) /\ request[a].args.present /\ request[a].name = UnknownName
    /\ IsFailure(a, "Unknown tool: no_such_tool")
    /\ request[b].name \in Registered(server) /\ clientCalls[b] = 1

\* C9 (as claimed): for every registered tool of every server, arguments that
\* omit the field its schema requires are answered with the failure envelope
\* "Missing required argument: <field>", without a call of the client.
C9_MissingRequiredArgument ==
  \A r \in Req :
    ( /\ Received(r) /\ request[r].args.present
      /\ request[r].name \in Registered(server)
      /\ ~Get(request[r].args, SchemaRequired(request[r].name)).defined ) =>
      /\ IsFailure(r, "Missing required argument: " \o SchemaRequired(request[r].name))
      /\ clientCalls[r] = 0

\* C10 (as claimed): arguments that supply the required field of a registered
\* tool as a string, the empty string included, pass validation, and the
\* tool's client method is called exactly once.
C10_SuppliedFieldReachesClient ==
  \A r \in Req :
    ( /\ Received(r) /\ request[r].args.present
      /\ request[r].name \in Registered(server)
      /\ Get(request[r].args, SchemaRequired(request[r].name)).defined ) =>
      clientCalls[r] = 1

\* The response of a finished request is one text block.
IsEnvelope(r) ==
  /\ Len(response[r]) = 1
  /\ response[r][1].type = "text"

\* C11: whatever validation, handler and upstream client do (return, throw of
\* an Error, throw of a value that is no Error, rejection), the call-tool
\* handler never rejects to the transport, a finished request has a normal
\* response envelope, no rejection of a tool invocation is left unhandled,
\* and process.exit is not called.
C11_HandlerNeverRejects ==
  /\ ~exit.exited
  /\ \A r \in Req :
       /\ ~handlerThrew[r]
       /\ bgCancel[r] # "unhandled"
       /\ pc[r] = "done" => IsEnvelope(r)

\* A client method rejected with a value that is no Error, the handler
\* answered it with an envelope, and the next request was served.
C11_Witness ==
  /\ server = "slack"
  /\ pc[1] = "done" /\ clientThrew[1]
  /\ IsFailure(1, "rejected")
  /\ pc[2] = "done" /\ response[2] = TextContent(ProfileJson)

\* The text that the tool of request r returns when it succeeds.
SuccessText(r) ==
  LET a == Get(request[r].args, CheckedField(request[r].name)).str IN
  CASE request[r].name = "bigquery_execute_query" -> ExecuteQuerySuccess(r)
    [] request[r].name = "bigquery_dry_run_query" -> DryRunSuccess
    [] request[r].name = "bigquery_get_job"       -> GetJobSuccess(a)
    [] request[r].name = "bigquery_cancel_job"    -> CancelJobSuccess(a)
    [] request[r].name = "slack_get_user_profile" -> ProfileJson
    [] request[r].name = "fetch"                  -> ContentsOf(a, Body)

\* Request r finished and its tool invocation failed: in validation, for an
\* unknown tool, in an upstream call, or by cancellation.
Failed(r) ==
  /\ pc[r] = "done"
  /\ \/ Dispatch(server, request[r].name, request[r].args).kind = "throw"
     \/ response[r] # TextContent(SuccessText(r))

\* The messages of the errors that an invocation of request r can end with.
FailureMessages(r) ==
  LET d == Dispatch(server, request[r].name, request[r].args)
      a == Get(request[r].args, "url").str
  IN  {d.err.message, "Request was cancelled"}
        \cup {ErrorMessage(e) : e \in Rejections}
        \cup {FetchUrlCatch(a, e).err.message : e \in Rejections \cup {NotOk(a)}}

\* C12 (as claimed): the response of every failed invocation is the one text
\* block {"error": msg}, msg being the message of the error.
C12_FailureIsErrorEnvelope ==
  \A r \in Req :
    Failed(r) => \E msg \in FailureMessages(r) : IsFailure(r, msg)

\* C13 (as claimed): the stored handle is empty whenever the stream of the
\* session it stood for has closed, and no POST is handed to a session
\* whose stream has closed.
C13_HandleClearedOnClose ==
  /\ transport # 0 => StreamOpen(transport)
  /\ \A p \in DOMAIN posts : posts[p].called => posts[p].streamOpen

\* C14: a POST /messages that finds no stored handle calls no transport,
\* reaches no handler and no session, then or later, and changes nothing:
\* not the handle, not the sessions, not the server, not the log.
C14_PostWithoutSessionIsNoOp ==
  /\ [](\A p \in DOMAIN posts :
          posts[p].handle = 0 =>
            /\ ~posts[p].called
            /\ ~posts[p].dispatched
            /\ \A k \in DOMAIN sessions : p \notin sessions[k].received)
  /\ [][(Len(posts') = Len(posts) + 1 /\ transport = 0) =>
          UNCHANGED << server, requestVars, mainVars, out, transport, sessions,
                       lists, prompt >>]_vars

\* A POST was dropped before the first session, and that session received
\* and answered only the POST that came after it was opened.
C14_Witness ==
  /\ Len(posts) = 2
  /\ posts[1].handle = 0
  /\ posts[2].dispatched
  /\ Len(sessions) = 1
  /\ sessions[1].received = {2}
  /\ Len(lists) = 1

\* C15: the one handle stands for the session opened last, and every POST
\* that is handed on goes to the session that was the last one opened when
\* it arrived, and to no other.
C15_RoutedToLatestSession ==
  /\ transport = Len(sessions)
  /\ \A p \in DOMAIN posts :
       posts[p].called =>
         /\ posts[p].handle = posts[p].opened
         /\ \A k \in DOMAIN sessions :
              p \in sessions[k].received <=> k = posts[p].opened

\* Two sessions, a POST to each while it was the latest.
C15_Witness ==
  /\ Len(sessions) = 2
  /\ Len(posts) = 2
  /\ sessions[1].received = {1}
  /\ sessions[2].received = {2}
  /\ sessions[1].stream = "open"

\* C16: with --sse the stdio transport is never created or connected,
\* without it no port is bound and no SSE session exists; once main chose,
\* exactly one of the two is there, and the choice is never undone.
C16_OneTransportVariant ==
  /\ [](/\ "--sse" \in argv => stdio = "none"
        /\ "--sse" \notin argv => httpPorts = {} /\ sessions = << >> /\ transport = 0
        /\ mainPc \in {"listen", "connect", "done"} =>
             (httpPorts # {}) # (stdio # "none"))
  /\ [][/\ argv' = argv
        /\ httpPorts # {} => httpPorts' = httpPorts
        /\ stdio # "none" => stdio' # "none"]_vars

\* A process started with --sse that serves a session over HTTP.
C16_Witness ==
  /\ "--sse" \in argv
  /\ httpPorts = {Port}
  /\ Len(sessions) = 1
  /\ Len(lists) = 1
  /\ stdio = "none"

\* A required variable of the server is not set.
RequiredAbsent == \E n \in RequiredEnv(server) : ~env[n].defined

\* Nothing was set up and nothing was served.
NothingStarted ==
  /\ handlers = {}
  /\ httpPorts = {}
  /\ stdio = "none"
  /\ NoTraffic
  /\ \A r \in Req : pc[r] = "idle"

\* C17: with a required variable absent, main() ends in process.exit with a
\* status other than 0 after logging its diagnostic, and no handler was
\* registered, no transport started and no request served before.
C17_MissingEnvExitsFirst ==
  RequiredAbsent =>
    /\ NothingStarted
    /\ mainPc # "start" =>
         /\ mainPc = "exited"
         /\ exit.exited /\ exit.code # 0
         /\ EnvMessage(server) \in out.stderr

\* The slack server started with its bot token but without its team id.
C17_Witness ==
  /\ server = "slack"
  /\ env["SLACK_BOT_TOKEN"] = Str("x")
  /\ env["SLACK_TEAM_ID"] = Undefined
  /\ exit = Exit(1)

\* C18: without --sse, where stdout carries the protocol, no log line is
\* written to stdout: not at startup, not per request, not per failure.
C18_NoLogOnStdout == "--sse" \notin argv => out.stdout = {}

\* A stdio server that logged its startup, a request and a failure.
C18_Witness ==
  /\ "--sse" \notin argv
  /\ {StartingLine(server), "[stdio] MCP Server running on stdio",
      "Received CallToolRequest:", "Error executing tool:",
      "Received ListToolsRequest"} \subseteq out.stderr

\* C19 (as claimed): the get-prompt handler never rejects to the transport.
C19_PromptNeverRejects == prompt.pc = "done" => ~prompt.threw

\* The messages of the errors that fetchUrl(url) throws.
FetchUrlMessages(url) ==
  {FetchUrlCatch(url, e).err.message : e \in Rejections \cup {NotOk(url)}}

\* C19 (amended): a get-prompt request with a non-empty url never rejects: an
\* error of the fetch comes back as the text of the message; a request
\* without url, or with an empty one, rejects with "URL is required".
C19_PromptRejectsOnlyWithoutUrl ==
  prompt.pc = "done" =>
    LET url == Get(prompt.args, "url") IN
      IF Not(url)
      THEN prompt.threw /\ prompt.err = Error("URL is required")
      ELSE /\ ~prompt.threw
           /\ \/ /\ prompt.description = "Contents of " \o url.str
                 /\ prompt.text = Body
              \/ /\ prompt.description = "Failed to fetch " \o url.str
                 /\ prompt.text \in FetchUrlMessages(url.str)

\* The fetch of a get-prompt request failed and the handler returned the
\* error as text.
C19_Witness ==
  /\ prompt.pc = "done"
  /\ ~prompt.threw
  /\ prompt.description = "Failed to fetch v"
  /\ prompt.text = "Failed to fetch v: Error: upstream failure"

\* C20: every list-tools response of a lifetime is the same sequence, and it
\* names each tool that the call-tool handler has a case for, once.
C20_ListToolsStable ==
  \A i \in DOMAIN lists :
    /\ lists[i] = lists[1]
    /\ {lists[i][n] : n \in DOMAIN lists[i]} = CaseLabels(server)
    /\ Len(lists[i]) = Cardinality(CaseLabels(server))

\* Two list-tools responses and a cancelled call-tool request.
C20_Witness ==
  /\ Len(lists) = 2
  /\ server = "bigquery"
  /\ pc[1] = "done"
  /\ aborted[1]
  /\ Failed(1)

\* Request r is a fetch call with a url that passed the handler's test, and
\* fetchUrl returned the body to the handler.
FetchSucceeded(r) ==
  /\ server = "fetch"
  /\ pc[r] = "done"
  /\ Dispatch(server, request[r].name, request[r].args).kind = "call"
  /\ ~clientThrew[r]

\* C21: a fetch call with {url: u} whose fetch succeeds with body b returns
\* one text block: "Contents of <u>:", a line break, then b unmodified.
C21_FetchSuccessText ==
  \A r \in Req :
    FetchSucceeded(r) =>
      response[r] =
        << [type |-> "text",
            text |-> "Contents of " \o Get(request[r].args, "url").str
                       \o ":\n" \o "<html>ok</html>"] >>

\* A fetch call that succeeded, after one that failed upstream.
C21_Witness ==
  /\ FetchSucceeded(2)
  /\ request[2].args = ArgObject({<<"url", "v">>})
  /\ clientThrew[1]

\* executeQuery of request r, run on r's own data: what it does when the
\* promise p it awaits at label l settles, its own signal being aborted or not.
OwnExecuteQuery(r, l, p, ownAborted) ==
  CASE l = "createQueryJob" ->
         IF p.state = "rejected" THEN ExecuteQueryCatch(p.err)
         ELSE IF ownAborted THEN Await("job.cancel") ELSE Await("getQueryResults")
    [] l = "job.cancel" ->
         IF p.state = "rejected" THEN ExecuteQueryCatch(p.err)
         ELSE Return(ExecuteQueryCancelled(r))
    [] l = "getQueryResults" ->
         IF p.state = "rejected" THEN ExecuteQueryCatch(p.err)
         ELSE Return(ExecuteQuerySuccess(r))

\* Where the handler of request r stands and what it has returned after its
\* next step, computed from the name and arguments of r, the signal of r and
\* the promise that r awaits, and from nothing else.
OwnStep(r) ==
  IF pc[r] = "idle"
  THEN LET d == Dispatch(server, request'[r].name, request'[r].args) IN
         IF d.kind = "throw"
         THEN [pc |-> "done", response |-> CallToolCatch(d.err)]
         ELSE [pc |-> FirstAwait(request'[r].name), response |-> << >>]
  ELSE LET s == IF pc[r] \in OtherLabels
                THEN ClientResume(pc[r], awaited[r],
                       Get(request[r].args, CheckedField(request[r].name)).str)
                ELSE OwnExecuteQuery(r, pc[r], awaited[r], aborted[r])
       IN CASE s.kind = "await"  -> [pc |-> s.next, response |-> response[r]]
            [] s.kind = "return" -> [pc |-> "done", response |-> TextContent(s.text)]
            [] s.kind = "throw"  -> [pc |-> "done", response |-> CallToolCatch(s.err)]

\* C22: every step that moves the handler of a request or sets its response
\* is determined by that request's own name, arguments, signal and awaited
\* upstream outcome; no step of another request, and no state left by an
\* earlier one, enters into it.
C22_ResponseFromOwnRequestOnly ==
  [][\A r \in Req :
       (pc'[r] # pc[r] \/ response'[r] # response[r]) =>
         /\ pc'[r] = OwnStep(r).pc
         /\ response'[r] = OwnStep(r).response]_vars

\* Two equal bigquery_execute_query requests in flight together: the first
\* was cancelled and still waits, the second has returned its rows.
C22_Witness ==
  /\ request[1] = request[2]
  /\ request[1].name = "bigquery_execute_query"
  /\ pc[1] = "getQueryResults" /\ aborted[1]
  /\ pc[2] = "done" /\ ~aborted[2]
  /\ response[2] = TextContent(ExecuteQuerySuccess(2))

\* The signal of r fired before getQueryResults settled: before the request
\* arrived, or while createQueryJob or getQueryResults was pending.
AbortedBeforeResults(r) ==
  abortedAt[r] \in {"before", "createQueryJob", "getQueryResults"}

\* C23: in every state in which createQueryJob has resolved with a job and
\* the signal fired before getQueryResults settled, a job.cancel() on that
\* job, caused by that signal, has been called; so it was called before the
\* handler returned.
C23_NoLostCancellation ==
  \A r \in Req :
    (jobCreated[r] /\ AbortedBeforeResults(r)) =>
      /\ cancelCalls[r] >= 1
      /\ r \in cancelBy[r]

\* One request was aborted while createQueryJob was pending and now awaits
\* its job.cancel(); the other was aborted while getQueryResults was pending
\* and its job has been cancelled although its handler has not returned.
C23_Witness ==
  /\ abortedAt[1] = "createQueryJob" /\ pc[1] = "job.cancel" /\ cancelCalls[1] = 1
  /\ abortedAt[2] = "getQueryResults" /\ pc[2] = "getQueryResults"
  /\ cancelCalls[2] = 1

\* The signal of r fired only after executeQuery had been through its wait
\* for getQueryResults and had returned.
AbortedLate(r) == abortedAt[r] = "done" /\ removeCalls[r] = 1

\* C24: a signal that fires only after the wait for getQueryResults is over
\* leads to no job.cancel(), and the step in which it fires leaves every
\* response, every cancel count and every handler where it was.
C24_LateCancellationInert ==
  /\ [](\A r \in Req :
          AbortedLate(r) => cancelCalls[r] = 0 /\ bgCancel[r] = "none")
  /\ [][\A r \in Req :
          (pc[r] = "done" /\ ~aborted[r] /\ aborted'[r]) =>
            /\ response' = response
            /\ cancelCalls' = cancelCalls
            /\ bgCancel' = bgCancel
            /\ pc' = pc]_vars

\* Both requests were aborted after they had returned, one with its rows and
\* one with the error of getQueryResults.
C24_Witness ==
  /\ AbortedLate(1) /\ response[1] = TextContent(ExecuteQuerySuccess(1))
  /\ AbortedLate(2) /\ response[2] = TextContent(FailureJson("upstream failure"))

\* C25: a request has no response before its handler returns, and the
\* response it then has is a sequence of exactly one block of type "text".
C25_ExactlyOneTextBlock ==
  \A r \in Req :
    IF pc[r] = "done"
    THEN Len(response[r]) = 1 /\ response[r][1].type = "text"
    ELSE response[r] = << >>

\* A response of the catch clause and a response of the success path.
C25_Witness ==
  /\ server = "slack"
  /\ IsFailure(1, "No arguments provided")
  /\ response[2] = TextContent(ProfileJson)

\* C26: the HTTP request of a POST /messages that found no stored handle is
\* answered by nobody, and the record of a POST never changes afterwards.
C26_PostWithoutSessionNeverAnswered ==
  /\ [](\A p \in DOMAIN posts : posts[p].handle = 0 => posts[p].answer = "none")
  /\ [][\A p \in DOMAIN posts : posts'[p] = posts[p]]_vars

\* A POST without a session stayed unanswered while a session was opened and
\* a later POST was handed to its transport.
C26_Witness ==
  /\ Len(posts) = 2
  /\ posts[1].handle = 0 /\ posts[1].answer = "none"
  /\ posts[2].answer = "transport"
  /\ sessions[1].stream = "closed"

====
